---- MODULE Spec2Model ----
\* The in-solve callback protocol of ortools/math_opt/python/callback.py:
\* CallbackRegistration (user -> solver), parse_callback_data (solver -> user)
\* and CallbackResult with its generated-constraint builders (user -> solver).
EXTENDS Integers, Sequences, FiniteSets, TLC

VARIABLES
    registration,   \* the CallbackRegistration the user built
    backend,        \* the solver the model is solved with
    reg_proto,      \* CallbackRegistrationProto, once to_proto() ran
    cb_data,        \* the raw CallbackDataProto of the event that fired
    data,           \* the CallbackData parse_callback_data returned
    result,         \* the CallbackResult the user callback is building
    result_proto,   \* CallbackResultProto, once to_proto() ran
    err,            \* the exception the last operation raised, "none" if it returned
    pc              \* where the protocol stands

vars == <<registration, backend, reg_proto, cb_data, data, result, result_proto, err, pc>>

----------------------------------------------------------------------------
\* Bounds of the model.

\* Most events one registration requests.
MaxEvents == 3
\* Variables of the model being solved; ids are 0 .. NumVars-1.
NumVars == 2
\* Longest ids / values sequence of a raw primal-solution vector.
MaxLen == 2
\* Most generated constraints one CallbackResult holds.
MaxCons == 2
\* Most suggested solutions one CallbackResult holds.
MaxSugg == 1

----------------------------------------------------------------------------
\* Event

Event == {"UNSPECIFIED", "PRESOLVE", "SIMPLEX", "MIP", "MIP_SOLUTION", "MIP_NODE", "BARRIER"}

\* Event.value: the wire code of each event.
EventValue ==
    [UNSPECIFIED |-> 0, PRESOLVE |-> 1, SIMPLEX |-> 2, MIP |-> 3,
     MIP_SOLUTION |-> 4, MIP_NODE |-> 5, BARRIER |-> 6]

\* The events each solver delivers, as the Event docstring lists them.
Backends == {"gurobi", "cp_sat"}

SupportedEvents(b) ==
    IF b = "gurobi"
    THEN {"PRESOLVE", "SIMPLEX", "MIP", "MIP_SOLUTION", "MIP_NODE", "BARRIER"}
    ELSE {"MIP_SOLUTION"}

----------------------------------------------------------------------------
\* Python built-ins used by the code.

RECURSIVE InsertSorted(_, _)
InsertSorted(x, s) ==
    IF s = <<>> THEN <<x>>
    ELSE IF x <= Head(s) THEN <<x>> \o s
    ELSE <<Head(s)>> \o InsertSorted(x, Tail(s))

\* A sort that leaves the sequence in iteration order.
RECURSIVE SortedKeepsOrder(_)
SortedKeepsOrder(s) ==
    IF s = <<>> THEN <<>> ELSE <<Head(s)>> \o SortedKeepsOrder(Tail(s))

\* sorted(list of ints)
RECURSIVE sorted(_)
sorted(s) ==
    IF s = <<>> THEN <<>> ELSE InsertSorted(Head(s), sorted(Tail(s)))

\* The orders in which iterating a set may yield its elements.
IterationOrders(S) ==
    {f \in [1..Cardinality(S) -> S] : \A i, j \in 1..Cardinality(S) : i # j => f[i] # f[j]}

Min(a, b) == IF a <= b THEN a ELSE b

----------------------------------------------------------------------------
\* CallbackRegistration

\* sparse_containers.VariableFilter(): the default filter, no restriction.
VariableFilter == [skip_zero_values |-> FALSE, filtered_items |-> {}, filter_by_ids |-> FALSE]

VariableFilter_to_proto(f) ==
    [skip_zero_values |-> f.skip_zero_values,
     filter_by_ids |-> f.filter_by_ids,
     filtered_ids |-> f.filtered_items]

CallbackRegistration(events, add_cuts, add_lazy_constraints) ==
    [events |-> events,
     mip_solution_filter |-> VariableFilter,
     mip_node_filter |-> VariableFilter,
     add_cuts |-> add_cuts,
     add_lazy_constraints |-> add_lazy_constraints]

NoRegistrationProto == [present |-> FALSE]

\* A to_proto that leaves out the events the backend cannot deliver.
CallbackRegistration_to_proto_Filtering(self, order) ==
    [present |-> TRUE,
     request_registration |->
        sorted(SelectSeq([i \in 1..Len(order) |-> EventValue[order[i]]],
                         LAMBDA c : \E e \in SupportedEvents(backend) : EventValue[e] = c)),
     mip_solution_filter |-> VariableFilter_to_proto(self.mip_solution_filter),
     mip_node_filter |-> VariableFilter_to_proto(self.mip_node_filter),
     add_cuts |-> self.add_cuts,
     add_lazy_constraints |-> self.add_lazy_constraints]

\* CallbackRegistration.to_proto(); order is the order in which iterating
\* self.events yields the events.
CallbackRegistration_to_proto(self, order) ==
    [present |-> TRUE,
     request_registration |-> sorted([i \in 1..Len(order) |-> EventValue[order[i]]]),
     mip_solution_filter |-> VariableFilter_to_proto(self.mip_solution_filter),
     mip_node_filter |-> VariableFilter_to_proto(self.mip_node_filter),
     add_cuts |-> self.add_cuts,
     add_lazy_constraints |-> self.add_lazy_constraints]

\* The user requests one more event: registration.events.add(e).
RequestEvent(e) ==
    /\ pc = "registering"
    /\ e \notin registration.events
    /\ Cardinality(registration.events) < MaxEvents
    /\ registration' = [registration EXCEPT !.events = @ \cup {e}]
    /\ UNCHANGED <<backend, reg_proto, cb_data, data, result, result_proto, err, pc>>

\* The user authorizes user cuts: registration.add_cuts = True.
AllowCuts ==
    /\ pc = "registering"
    /\ ~registration.add_cuts
    /\ registration' = [registration EXCEPT !.add_cuts = TRUE]
    /\ UNCHANGED <<backend, reg_proto, cb_data, data, result, result_proto, err, pc>>

\* The user authorizes lazy constraints: registration.add_lazy_constraints = True.
AllowLazyConstraints ==
    /\ pc = "registering"
    /\ ~registration.add_lazy_constraints
    /\ registration' = [registration EXCEPT !.add_lazy_constraints = TRUE]
    /\ UNCHANGED <<backend, reg_proto, cb_data, data, result, result_proto, err, pc>>

\* solve() serializes the registration for the solver.
RegistrationToProto ==
    /\ pc = "registering"
    /\ \E order \in IterationOrders(registration.events) :
          reg_proto' = CallbackRegistration_to_proto(registration, order)
    /\ err' = "none"
    /\ pc' = "serialized"
    /\ UNCHANGED <<registration, backend, cb_data, data, result, result_proto>>

\* The solver checks the requested events against what it can deliver.
UnsupportedCodes(proto, b) ==
    {proto.request_registration[i] : i \in 1..Len(proto.request_registration)}
        \ {EventValue[e] : e \in SupportedEvents(b)}

\* Solve start: the solver accepts the registration or raises.
ValidateRegistration ==
    /\ pc = "serialized"
    /\ IF UnsupportedCodes(reg_proto, backend) = {}
       THEN pc' = "solving" /\ err' = "none"
       ELSE pc' = "solve_rejected" /\ err' = "UnsupportedEventForBackend"
    /\ UNCHANGED <<registration, backend, reg_proto, cb_data, data, result, result_proto>>

----------------------------------------------------------------------------
\* The model being solved (model.Model) and its variable handles.

\* model.Variable: a handle, equal to another when model and id are equal.
Variable(m, id) == [model |-> m, id |-> id]

\* The model: its name and the ids of its variables.
mod == [name |-> "mod", variables |-> 0..(NumVars - 1)]

\* Model.get_variable(id): the handle of id, or an error for an id the model
\* does not hold.
get_variable(m, id) ==
    IF id \in m.variables
    THEN [raised |-> FALSE, value |-> Variable(m.name, id)]
    ELSE [raised |-> TRUE, value |-> Variable(m.name, id)]

\* A dict: a function on its keys. d[k] = v keeps the other entries and
\* overwrites an entry already under k.
EmptyDict == [k \in {} |-> 0]

DictSet(d, k, v) == [x \in (DOMAIN d) \cup {k} |-> IF x = k THEN v ELSE d[x]]

\* sparse_containers.to_sparse_double_vector_proto(terms): the (id, value)
\* pairs of the mapping, sorted by id.
to_sparse_double_vector_proto(terms) ==
    LET ids == sorted(CHOOSE o \in IterationOrders({k.id : k \in DOMAIN terms}) : TRUE)
    IN  [ids |-> ids,
         values |-> [i \in 1..Len(ids) |->
                        terms[CHOOSE k \in DOMAIN terms : k.id = ids[i]]]]

----------------------------------------------------------------------------
\* CallbackData and parse_callback_data

\* The event codes a raw payload may carry; the last one is no Event.
EventCodes == 0..7

SolutionValues == {0, 1}

SeqsUpTo(S, n) == UNION {[1..k -> S] : k \in 0..n}

\* The stats blocks and the runtime are opaque to the callback layer.
RawStats == [presolve |-> "presolve_stats", simplex |-> "simplex_stats",
             barrier |-> "barrier_stats", mip |-> "mip_stats"]

SparseDoubleVectorProto(ids, values) == [ids |-> ids, values |-> values]

CallbackDataProto(event, has_psv, ids, values) ==
    [event |-> event,
     has_primal_solution_vector |-> has_psv,
     primal_solution_vector |-> SparseDoubleVectorProto(ids, values),
     runtime |-> [seconds |-> 1, nanos |-> 0],
     presolve_stats |-> RawStats.presolve,
     simplex_stats |-> RawStats.simplex,
     barrier_stats |-> RawStats.barrier,
     mip_stats |-> RawStats.mip]

\* The raw payloads a solver may hand over: any event code, the vector absent
\* or present, its ids and values of any lengths up to MaxLen, ids possibly
\* repeated or unknown to the model (NumVars is the first unknown id).
Payloads ==
    {CallbackDataProto(c, FALSE, <<>>, <<>>) : c \in EventCodes}
    \cup {CallbackDataProto(c, TRUE, i, v) :
            c \in EventCodes, i \in SeqsUpTo(0..NumVars, MaxLen),
            v \in SeqsUpTo(SolutionValues, MaxLen)}

\* No CallbackData was returned (yet).
NoCallbackData == [present |-> FALSE]

\* CallbackData(): the dataclass defaults.
CallbackData ==
    [event |-> "UNSPECIFIED",
     has_solution |-> FALSE,
     solution |-> EmptyDict,
     messages |-> <<>>,
     runtime |-> [seconds |-> 0, microseconds |-> 0],
     presolve_stats |-> "default",
     simplex_stats |-> "default",
     barrier_stats |-> "default",
     mip_stats |-> "default"]

\* A zip that stops one pair early.
ZipDropsLast(ids, values) ==
    [i \in 1..(Min(Len(ids), Len(values)) - 1) |-> <<ids[i], values[i]>>]

\* zip(ids, values): pairs by position, as many as the shorter sequence has.
zip(ids, values) ==
    [i \in 1..Min(Len(ids), Len(values)) |-> <<ids[i], values[i]>>]

\* {mod.get_variable(id): val for (id, val) in pairs}: built left to right;
\* the first id get_variable rejects ends it with that error.
RECURSIVE DictComprehension(_, _, _)
DictComprehension(pairs, m, acc) ==
    IF pairs = <<>> THEN [raised |-> FALSE, value |-> acc]
    ELSE LET v == get_variable(m, Head(pairs)[1])
         IN  IF v.raised THEN [raised |-> TRUE, value |-> acc]
             ELSE DictComprehension(Tail(pairs), m, DictSet(acc, v.value, Head(pairs)[2]))

\* Duration.ToTimedelta()
ToTimedelta(d) == [seconds |-> d.seconds, microseconds |-> d.nanos \div 1000]

\* parse_callback_data(cb_data, mod): the CallbackData, or the error raised.
parse_callback_data(cb, m) ==
    IF ~(\E e \in Event : EventValue[e] = cb.event)
    THEN [raised |-> TRUE, error |-> "ValueError", value |-> CallbackData]
    ELSE
    LET event == CHOOSE e \in Event : EventValue[e] = cb.event
        sol == IF cb.has_primal_solution_vector
               THEN DictComprehension(
                        zip(cb.primal_solution_vector.ids, cb.primal_solution_vector.values),
                        m, EmptyDict)
               ELSE [raised |-> FALSE, value |-> EmptyDict]
    IN  IF sol.raised
        THEN [raised |-> TRUE, error |-> "KeyError", value |-> CallbackData]
        ELSE [raised |-> FALSE, error |-> "none",
              value |-> [CallbackData EXCEPT
                            !.event = event,
                            !.has_solution = cb.has_primal_solution_vector,
                            !.solution = sol.value,
                            !.runtime = ToTimedelta(cb.runtime),
                            !.presolve_stats = cb.presolve_stats,
                            !.simplex_stats = cb.simplex_stats,
                            !.barrier_stats = cb.barrier_stats,
                            !.mip_stats = cb.mip_stats]]

\* The solver fires an event and the payload is parsed for the user callback.
ParseCallbackData ==
    /\ pc = "fired"
    /\ LET r == parse_callback_data(cb_data, mod)
       IN  /\ err' = r.error
           /\ data' = IF r.raised THEN data ELSE r.value
           /\ pc' = IF r.raised THEN "parse_failed" ELSE "handling"
    /\ UNCHANGED <<registration, backend, reg_proto, cb_data, result, result_proto>>

----------------------------------------------------------------------------
\* Floats: finite values (integers here) and the two infinities.

Fin(n) == [k |-> "fin", n |-> n]

PInf == [k |-> "inf", n |-> 1]

NInf == [k |-> "inf", n |-> -1]

\* An argument left out of a call (None).
None == [k |-> "none", n |-> 0]

IsInf(x) == x.k = "inf"

\* x - off for a finite off: an infinity stays what it is.
FloatSub(x, off) == IF x.k = "fin" THEN Fin(x.n - off.n) ELSE x

----------------------------------------------------------------------------
\* Linear expressions and inequalities (model.py).

\* A linear expression in flat form: a constant offset and the terms.
LinearExpression(offset, terms) == [k |-> "expr", offset |-> offset, terms |-> terms]

\* expr >= lb
LowerBoundedLinearExpression(expr, lb) ==
    [k |-> "lower", expression |-> expr, lower_bound |-> lb, upper_bound |-> PInf]

\* expr <= ub
UpperBoundedLinearExpression(expr, ub) ==
    [k |-> "upper", expression |-> expr, lower_bound |-> NInf, upper_bound |-> ub]

\* (lb <= expr) <= ub
BoundedLinearExpression(lb, expr, ub) ==
    [k |-> "bounded", expression |-> expr, lower_bound |-> lb, upper_bound |-> ub]

\* The zero expression, used when no expression is given.
ZeroExpression == LinearExpression(Fin(0), EmptyDict)

\* model.as_normalized_linear_inequality(bounded_expr, lb=, ub=, expr=):
\* the two call shapes are exclusive; a missing lb is -inf, a missing ub is
\* +inf, a missing expr is zero; the offset is folded into the bounds and must
\* be finite.
as_normalized_linear_inequality(bounded_expr, lb, ub, expr) ==
    IF bounded_expr # None /\ (lb # None \/ ub # None \/ expr # None)
    THEN [raised |-> TRUE, error |-> "ValueError: ambiguous"]
    ELSE
    LET e == IF bounded_expr # None THEN bounded_expr.expression
             ELSE IF expr # None THEN expr ELSE ZeroExpression
        lo == IF bounded_expr # None THEN bounded_expr.lower_bound
              ELSE IF lb # None THEN lb ELSE NInf
        hi == IF bounded_expr # None THEN bounded_expr.upper_bound
              ELSE IF ub # None THEN ub ELSE PInf
    IN  IF IsInf(e.offset)
        THEN [raised |-> TRUE, error |-> "ValueError: infinite offset"]
        ELSE [raised |-> FALSE, error |-> "none",
              lb |-> FloatSub(lo, e.offset),
              ub |-> FloatSub(hi, e.offset),
              coefficients |-> e.terms]

----------------------------------------------------------------------------
\* GeneratedConstraint and CallbackResult

GeneratedConstraint(terms, lower_bound, upper_bound, is_lazy) ==
    [terms |-> terms, lower_bound |-> lower_bound,
     upper_bound |-> upper_bound, is_lazy |-> is_lazy]

\* A to_proto that leaves is_lazy at the proto's default.
GeneratedConstraint_to_proto_NoLazy(self) ==
    [is_lazy |-> FALSE,
     lower_bound |-> self.lower_bound,
     upper_bound |-> self.upper_bound,
     linear_expression |-> to_sparse_double_vector_proto(self.terms)]

\* GeneratedConstraint.to_proto()
GeneratedConstraint_to_proto(self) ==
    [is_lazy |-> self.is_lazy,
     lower_bound |-> self.lower_bound,
     upper_bound |-> self.upper_bound,
     linear_expression |-> to_sparse_double_vector_proto(self.terms)]

\* CallbackResult(): the dataclass defaults.
CallbackResult == [terminate |-> FALSE, generated_constraints |-> <<>>, suggested_solutions |-> <<>>]

NoResultProto == [present |-> FALSE]

\* A to_proto that leaves terminate at the proto's default.
CallbackResult_to_proto_NoTerminate(self) ==
    [terminate |-> FALSE,
     cuts |-> [i \in 1..Len(self.generated_constraints) |->
                  GeneratedConstraint_to_proto(self.generated_constraints[i])],
     suggested_solutions |-> [i \in 1..Len(self.suggested_solutions) |->
                  to_sparse_double_vector_proto(self.suggested_solutions[i])]]

\* A to_proto that stops before the suggested solutions.
CallbackResult_to_proto_NoSuggestions(self) ==
    [terminate |-> self.terminate,
     cuts |-> [i \in 1..Len(self.generated_constraints) |->
                  GeneratedConstraint_to_proto(self.generated_constraints[i])],
     suggested_solutions |-> <<>>]

\* CallbackResult.to_proto()
CallbackResult_to_proto(self) ==
    [terminate |-> self.terminate,
     cuts |-> [i \in 1..Len(self.generated_constraints) |->
                  GeneratedConstraint_to_proto(self.generated_constraints[i])],
     suggested_solutions |-> [i \in 1..Len(self.suggested_solutions) |->
                  to_sparse_double_vector_proto(self.suggested_solutions[i])]]

----------------------------------------------------------------------------
\* The calls of the user callback.

\* The arguments of one add_generated_constraint call.
Args(bounded_expr, lb, ub, expr) ==
    [bounded_expr |-> bounded_expr, lb |-> lb, ub |-> ub, expr |-> expr]

\* x + y over the model's first two variables.
ExprXY ==
    LinearExpression(Fin(0),
        [v \in {Variable(mod.name, 0), Variable(mod.name, 1)} |-> 1])

\* x + y + 1.0
ExprXY1 ==
    LinearExpression(Fin(1),
        [v \in {Variable(mod.name, 0), Variable(mod.name, 1)} |-> 1])

\* x + math.inf
ExprInf == LinearExpression(PInf, [v \in {Variable(mod.name, 0)} |-> 1])

\* Well-formed calls, one shape at a time.
FiniteExprs == {ExprXY, ExprXY1}

KeywordCalls ==
    {Args(None, Fin(2), None, e) : e \in FiniteExprs}
    \cup {Args(None, None, Fin(2), e) : e \in FiniteExprs}
    \cup {Args(None, Fin(2), None, None)}

InequalityCalls ==
    {Args(LowerBoundedLinearExpression(e, Fin(2)), None, None, None) : e \in FiniteExprs}
    \cup {Args(UpperBoundedLinearExpression(e, Fin(2)), None, None, None) : e \in FiniteExprs}

\* (1.0 <= x + y + 1.0) <= 2.0
TwoSidedCalls ==
    {Args(BoundedLinearExpression(Fin(1), ExprXY1, Fin(2)), None, None, None)}

\* Calls that give an inequality together with lb, ub or expr.
AmbiguousCalls ==
    {Args(UpperBoundedLinearExpression(ExprXY1, Fin(2)), Fin(1), None, None),
     Args(UpperBoundedLinearExpression(ExprXY1, Fin(2)), None, PInf, None),
     Args(LowerBoundedLinearExpression(ExprXY1, Fin(2)), None, None, ExprXY1)}

\* Calls whose expression has an infinite offset.
InfiniteOffsetCalls ==
    {Args(None, Fin(2), None, ExprInf),
     Args(LowerBoundedLinearExpression(ExprInf, Fin(2)), None, None, None)}

\* The calls of a callback that builds a result.
Calls == KeywordCalls \cup InequalityCalls \cup AmbiguousCalls \cup InfiniteOffsetCalls

\* The calls of a callback whose result goes to the solver.
SolveCalls ==
    {Args(LowerBoundedLinearExpression(ExprXY1, Fin(2)), None, None, None)}
    \cup TwoSidedCalls

\* add_generated_constraint that appends before it normalizes.
add_generated_constraint_AppendFirst(args, is_lazy) ==
    /\ pc = "handling"
    /\ Len(result.generated_constraints) < MaxCons
    /\ LET n == as_normalized_linear_inequality(args.bounded_expr, args.lb, args.ub, args.expr)
       IN  IF n.raised
           THEN /\ err' = n.error
                /\ result' = [result EXCEPT !.generated_constraints =
                                Append(@, GeneratedConstraint(EmptyDict, NInf, PInf, is_lazy))]
           ELSE /\ err' = "none"
                /\ result' = [result EXCEPT !.generated_constraints =
                                Append(@, GeneratedConstraint(n.coefficients, n.lb, n.ub, is_lazy))]
    /\ UNCHANGED <<registration, backend, reg_proto, cb_data, data, result_proto, pc>>

\* add_generated_constraint that passes only the inequality on when one is
\* given.
add_generated_constraint_IgnoresKeywords(args, is_lazy) ==
    /\ pc = "handling"
    /\ LET n == IF args.bounded_expr # None
                THEN as_normalized_linear_inequality(args.bounded_expr, None, None, None)
                ELSE as_normalized_linear_inequality(None, args.lb, args.ub, args.expr)
       IN  IF n.raised
           THEN /\ err' = n.error
                /\ result' = result
           ELSE /\ Len(result.generated_constraints) < MaxCons
                /\ err' = "none"
                /\ result' = [result EXCEPT !.generated_constraints =
                                Append(@, GeneratedConstraint(n.coefficients, n.lb, n.ub, is_lazy))]
    /\ UNCHANGED <<registration, backend, reg_proto, cb_data, data, result_proto, pc>>

\* add_generated_constraint that does not pass expr on.
add_generated_constraint_DropsExpr(args, is_lazy) ==
    /\ pc = "handling"
    /\ LET n == as_normalized_linear_inequality(args.bounded_expr, args.lb, args.ub, None)
       IN  IF n.raised
           THEN /\ err' = n.error
                /\ result' = result
           ELSE /\ Len(result.generated_constraints) < MaxCons
                /\ err' = "none"
                /\ result' = [result EXCEPT !.generated_constraints =
                                Append(@, GeneratedConstraint(n.coefficients, n.lb, n.ub, is_lazy))]
    /\ UNCHANGED <<registration, backend, reg_proto, cb_data, data, result_proto, pc>>

\* add_generated_constraint that puts the new constraint first.
add_generated_constraint_Prepends(args, is_lazy) ==
    /\ pc = "handling"
    /\ LET n == as_normalized_linear_inequality(args.bounded_expr, args.lb, args.ub, args.expr)
       IN  IF n.raised
           THEN /\ err' = n.error
                /\ result' = result
           ELSE /\ Len(result.generated_constraints) < MaxCons
                /\ err' = "none"
                /\ result' = [result EXCEPT !.generated_constraints =
                                <<GeneratedConstraint(n.coefficients, n.lb, n.ub, is_lazy)>> \o @]
    /\ UNCHANGED <<registration, backend, reg_proto, cb_data, data, result_proto, pc>>

\* CallbackResult.add_generated_constraint(bounded_expr, lb=, ub=, expr=, is_lazy=):
\* normalizes, which may raise, and only then appends.
add_generated_constraint(args, is_lazy) ==
    /\ pc = "handling"
    /\ LET n == as_normalized_linear_inequality(args.bounded_expr, args.lb, args.ub, args.expr)
       IN  IF n.raised
           THEN /\ err' = n.error
                /\ result' = result
           ELSE /\ Len(result.generated_constraints) < MaxCons
                /\ err' = "none"
                /\ result' = [result EXCEPT !.generated_constraints =
                                Append(@, GeneratedConstraint(n.coefficients, n.lb, n.ub, is_lazy))]
    /\ UNCHANGED <<registration, backend, reg_proto, cb_data, data, result_proto, pc>>

\* CallbackResult.add_lazy_constraint(...)
add_lazy_constraint(args) == add_generated_constraint(args, TRUE)

\* CallbackResult.add_user_cut(...)
add_user_cut(args) == add_generated_constraint(args, FALSE)

\* The user callback sets result.terminate.
SetTerminate(b) ==
    /\ pc = "handling"
    /\ result.terminate # b
    /\ result' = [result EXCEPT !.terminate = b]
    /\ err' = "none"
    /\ UNCHANGED <<registration, backend, reg_proto, cb_data, data, result_proto, pc>>

\* The user callback suggests the solution it was handed:
\* result.suggested_solutions.append(data.solution).
SuggestSolution ==
    /\ pc = "handling"
    /\ data.has_solution
    /\ Len(result.suggested_solutions) < MaxSugg
    /\ result' = [result EXCEPT !.suggested_solutions = Append(@, data.solution)]
    /\ err' = "none"
    /\ UNCHANGED <<registration, backend, reg_proto, cb_data, data, result_proto, pc>>

\* The callback returns and its result is serialized for the solver.
CallbackResultToProto ==
    /\ pc = "handling"
    /\ result_proto' = CallbackResult_to_proto(result)
    /\ err' = "none"
    /\ pc' = "delivered"
    /\ UNCHANGED <<registration, backend, reg_proto, cb_data, data, result>>

\* The actions the event and the registration allow (the Event Model).
IllegalCut(cut, event, reg) ==
    IF cut.is_lazy
    THEN ~reg.add_lazy_constraints \/ event \notin {EventValue.MIP_NODE, EventValue.MIP_SOLUTION}
    ELSE ~reg.add_cuts \/ event # EventValue.MIP_NODE

\* The solver checks the delivered result against the Event Model.
ValidateResult ==
    /\ pc = "delivered"
    /\ IF \/ \E i \in 1..Len(result_proto.cuts) :
                IllegalCut(result_proto.cuts[i], cb_data.event, reg_proto)
          \/ (result_proto.suggested_solutions # <<>> /\ cb_data.event # EventValue.MIP_NODE)
       THEN pc' = "rejected" /\ err' = "IllegalActionForEvent"
       ELSE pc' = "accepted" /\ err' = "none"
    /\ UNCHANGED <<registration, backend, reg_proto, cb_data, data, result, result_proto>>

----------------------------------------------------------------------------
\* Specifications

\* Registration: the user builds a registration, solve() serializes it and
\* the solver validates it.
InitRegistration ==
    /\ registration = CallbackRegistration({}, FALSE, FALSE)
    /\ backend \in Backends
    /\ reg_proto = NoRegistrationProto
    /\ cb_data = CallbackDataProto(EventValue.UNSPECIFIED, FALSE, <<>>, <<>>)
    /\ data = NoCallbackData
    /\ result = CallbackResult
    /\ result_proto = NoResultProto
    /\ err = "none"
    /\ pc = "registering"

NextRegistration ==
    \/ \E e \in Event : RequestEvent(e)
    \/ AllowCuts
    \/ AllowLazyConstraints
    \/ RegistrationToProto
    \/ ValidateRegistration

SpecRegistration == InitRegistration /\ [][NextRegistration]_vars

\* Inbound: an event fires with a raw payload, the payload is parsed, and the
\* callback hands the decoded solution back as a suggestion.
InitParse ==
    /\ registration = CallbackRegistration({"MIP_SOLUTION", "MIP_NODE"}, TRUE, TRUE)
    /\ backend = "gurobi"
    /\ reg_proto = CallbackRegistration_to_proto(registration, <<"MIP_SOLUTION", "MIP_NODE">>)
    /\ cb_data \in Payloads
    /\ data = NoCallbackData
    /\ result = CallbackResult
    /\ result_proto = NoResultProto
    /\ err = "none"
    /\ pc = "fired"

NextParse ==
    \/ ParseCallbackData
    \/ SuggestSolution
    \/ CallbackResultToProto

SpecParse == InitParse /\ [][NextParse]_vars

\* Outbound: the user callback, called at a MIP_NODE event under a
\* registration that allows cuts and lazy constraints, builds a CallbackResult,
\* which is serialized when the callback returns.
Init ==
    /\ registration = CallbackRegistration({"MIP_SOLUTION", "MIP_NODE"}, TRUE, TRUE)
    /\ backend = "gurobi"
    /\ reg_proto = CallbackRegistration_to_proto(registration, <<"MIP_SOLUTION", "MIP_NODE">>)
    /\ cb_data = CallbackDataProto(EventValue.MIP_NODE, TRUE, <<0, 1>>, <<1, 0>>)
    /\ data = parse_callback_data(cb_data, mod).value
    /\ result = CallbackResult
    /\ result_proto = NoResultProto
    /\ err = "none"
    /\ pc = "handling"

Next ==
    \/ \E a \in Calls, l \in BOOLEAN : add_generated_constraint(a, l)
    \/ \E a \in Calls : add_lazy_constraint(a)
    \/ \E a \in Calls : add_user_cut(a)
    \/ \E b \in BOOLEAN : SetTerminate(b)
    \/ SuggestSolution
    \/ CallbackResultToProto

Spec == Init /\ [][Next]_vars

\* Outbound, to the solver: under any registration flags and at a MIP_SOLUTION
\* or MIP_NODE event the callback adds lazy constraints and user cuts, and the
\* solver checks the serialized result against the Event Model.
InitSolve ==
    /\ registration \in {CallbackRegistration({"MIP_SOLUTION", "MIP_NODE"}, c, l) :
                            c \in BOOLEAN, l \in BOOLEAN}
    /\ backend = "gurobi"
    /\ reg_proto = CallbackRegistration_to_proto(registration, <<"MIP_SOLUTION", "MIP_NODE">>)
    /\ cb_data \in {CallbackDataProto(c, TRUE, <<0, 1>>, <<1, 0>>) :
                        c \in {EventValue.MIP_SOLUTION, EventValue.MIP_NODE}}
    /\ data = parse_callback_data(cb_data, mod).value
    /\ result = CallbackResult
    /\ result_proto = NoResultProto
    /\ err = "none"
    /\ pc = "handling"

NextSolve ==
    \/ \E a \in SolveCalls : add_lazy_constraint(a)
    \/ \E a \in SolveCalls : add_user_cut(a)
    \/ \E b \in BOOLEAN : SetTerminate(b)
    \/ SuggestSolution
    \/ CallbackResultToProto
    \/ ValidateResult

SpecSolve == InitSolve /\ [][NextSolve]_vars

----------------------------------------------------------------------------
\* Properties of the registration (checked under SpecRegistration).

\* C1: for every set of events the registration holds, the empty set
\* included, to_proto() yields request_registration in strictly ascending
\* code order (sorted, no duplicates) holding exactly the codes of the events.
C1_RequestRegistrationSortedExact ==
    reg_proto.present =>
        LET rr == reg_proto.request_registration
        IN  /\ \A i \in 1..(Len(rr) - 1) : rr[i] < rr[i + 1]
            /\ {rr[i] : i \in 1..Len(rr)} = {EventValue[e] : e \in registration.events}
            /\ Len(rr) = Cardinality(registration.events)

\* A registration of several events, one of them BARRIER (the highest code)
\* and one PRESOLVE, was serialized.
C1_Witness ==
    /\ reg_proto.present
    /\ {"BARRIER", "PRESOLVE"} \subseteq registration.events
    /\ Len(reg_proto.request_registration) >= 2

\* C5 as claimed: a registration that requests an event the backend does not
\* support is refused when it is made, so it is never serialized.
C5_UnsupportedNeverSerialized ==
    (\E e \in registration.events : e \notin SupportedEvents(backend))
        => ~reg_proto.present

\* C5 as amended: CallbackRegistration accepts and serializes every requested
\* event, supported or not, without an error; the unsupported event is refused
\* when the solve starts and the solver validates the serialized registration,
\* so no solve runs with it.
C5_UnsupportedRejectedAtSolveStart ==
    /\ reg_proto.present =>
          {reg_proto.request_registration[i] : i \in 1..Len(reg_proto.request_registration)}
              = {EventValue[e] : e \in registration.events}
    /\ pc \in {"registering", "serialized"} => err = "none"
    /\ pc = "solving" => registration.events \subseteq SupportedEvents(backend)
    /\ pc = "solve_rejected" =>
          /\ err = "UnsupportedEventForBackend"
          /\ ~(registration.events \subseteq SupportedEvents(backend))

\* A registration requesting BARRIER for CP-SAT was serialized, code
\* included, and then refused at solve start.
C5_Witness ==
    /\ pc = "solve_rejected"
    /\ backend = "cp_sat"
    /\ "BARRIER" \in registration.events
    /\ \E i \in 1..Len(reg_proto.request_registration) :
          reg_proto.request_registration[i] = EventValue.BARRIER

----------------------------------------------------------------------------
\* Properties of parse_callback_data (checked under SpecParse).

PsvIds == cb_data.primal_solution_vector.ids

PsvValues == cb_data.primal_solution_vector.values

\* C2 as claimed: a payload whose primal-solution vector names an id unknown
\* to the model, at whatever position, makes parse_callback_data fail and
\* return no CallbackData.
C2_UnknownIdAlwaysFails ==
    (/\ pc # "fired"
     /\ cb_data.has_primal_solution_vector
     /\ \E i \in 1..Len(PsvIds) : PsvIds[i] \notin mod.variables)
        => (err # "none" /\ data = NoCallbackData)

\* The vector of the payload is well formed: as many values as ids, ids
\* pairwise distinct and all known to the model.
ValidVector ==
    /\ cb_data.has_primal_solution_vector
    /\ Len(PsvIds) = Len(PsvValues)
    /\ \A i, j \in 1..Len(PsvIds) : i # j => PsvIds[i] # PsvIds[j]
    /\ \A i \in 1..Len(PsvIds) : PsvIds[i] \in mod.variables

\* C7: for a MIP_SOLUTION payload with a well-formed vector, the solution's
\* keys are exactly the variables the ids name, its size is the vector's
\* length, and each variable maps to the value at its id's position.
C7_SolutionMatchesVector ==
    (pc # "fired" /\ cb_data.event = EventValue.MIP_SOLUTION /\ ValidVector)
        => /\ err = "none"
           /\ data # NoCallbackData
           /\ data.event = "MIP_SOLUTION"
           /\ data.has_solution
           /\ DOMAIN data.solution = {Variable(mod.name, PsvIds[i]) : i \in 1..Len(PsvIds)}
           /\ Cardinality(DOMAIN data.solution) = Len(PsvIds)
           /\ \A i \in 1..Len(PsvIds) :
                 data.solution[Variable(mod.name, PsvIds[i])] = PsvValues[i]

\* A MIP_SOLUTION payload with two ids in descending order and two different
\* values was parsed.
C7_Witness ==
    /\ pc = "handling"
    /\ cb_data.event = EventValue.MIP_SOLUTION
    /\ ValidVector
    /\ Len(PsvIds) >= 2
    /\ PsvIds[1] > PsvIds[2]
    /\ PsvValues[1] # PsvValues[2]

\* The payload with its vector's pairs rearranged by p.
Rearranged(p) ==
    [cb_data EXCEPT !.primal_solution_vector =
        SparseDoubleVectorProto([i \in 1..Len(PsvIds) |-> PsvIds[p[i]]],
                                [i \in 1..Len(PsvIds) |-> PsvValues[p[i]]])]

\* C8: decoding a well-formed vector and encoding the mapping again (a
\* suggested solution in to_proto()) gives back the same id-to-value pairs,
\* and gives the same wire form for every ordering of the input pairs.
C8_DecodeEncodeRoundTrip ==
    (pc = "delivered" /\ ValidVector)
        => /\ Len(result_proto.suggested_solutions) = Len(result.suggested_solutions)
           /\ \A k \in 1..Len(result_proto.suggested_solutions) :
                LET w == result_proto.suggested_solutions[k]
                IN  /\ Len(w.ids) = Len(PsvIds)
                    /\ Len(w.values) = Len(PsvIds)
                    /\ {<<w.ids[i], w.values[i]>> : i \in 1..Len(w.ids)}
                          = {<<PsvIds[i], PsvValues[i]>> : i \in 1..Len(PsvIds)}
                    /\ \A p \in IterationOrders(1..Len(PsvIds)) :
                          to_sparse_double_vector_proto(
                              parse_callback_data(Rearranged(p), mod).value.solution) = w

\* A decoded vector of two pairs, given in descending id order, was suggested
\* back and serialized.
C8_Witness ==
    /\ pc = "delivered"
    /\ ValidVector
    /\ Len(PsvIds) >= 2
    /\ PsvIds[1] > PsvIds[2]
    /\ PsvValues[1] # PsvValues[2]
    /\ Len(result_proto.suggested_solutions) >= 1

----------------------------------------------------------------------------
\* Properties of CallbackResult (checked under Spec, C4 under SpecSolve).

\* A step that is one of the three builder calls with arguments a.
BuilderCall(a) ==
    \/ \E l \in BOOLEAN : add_generated_constraint(a, l)
    \/ add_lazy_constraint(a)
    \/ add_user_cut(a)

\* The calls that are well formed.
WellFormedCalls == KeywordCalls \cup InequalityCalls

\* C3: a builder call that gives a bounded inequality together with lb, ub
\* or expr raises, and generated_constraints is after the call what it was
\* before it.
C3_AmbiguousCallAppendsNothing ==
    [][\A a \in AmbiguousCalls :
          BuilderCall(a) =>
              /\ err' = "ValueError: ambiguous"
              /\ result'.generated_constraints = result.generated_constraints]_vars

\* An ambiguous call has just failed on a result that already holds a
\* constraint.
C3_Witness ==
    /\ pc = "handling"
    /\ err = "ValueError: ambiguous"
    /\ Len(result.generated_constraints) >= 1

\* The result holds a constraint the registration did not authorize.
HoldsUnauthorized ==
    \E i \in 1..Len(result.generated_constraints) :
        \/ result.generated_constraints[i].is_lazy /\ ~registration.add_lazy_constraints
        \/ ~result.generated_constraints[i].is_lazy /\ ~registration.add_cuts

\* C4: a result holding a lazy constraint built under add_lazy_constraints =
\* False (or a user cut under add_cuts = False) is rejected with an
\* illegal-action error when the solver checks it; it is never accepted.
C4_UnauthorizedConstraintRejected ==
    (pc \in {"accepted", "rejected"} /\ HoldsUnauthorized)
        => (pc = "rejected" /\ err = "IllegalActionForEvent")

\* At MIP_NODE, under a registration that allows cuts but not lazy
\* constraints, a result whose only constraint is lazy was rejected.
C4_Witness ==
    /\ pc = "rejected"
    /\ cb_data.event = EventValue.MIP_NODE
    /\ registration.add_cuts
    /\ ~registration.add_lazy_constraints
    /\ Len(result.generated_constraints) = 1
    /\ result.generated_constraints[1].is_lazy
    /\ result.suggested_solutions = <<>>

\* C6: no builder call, failing or not, and no appended suggestion alters
\* terminate (a step that alters it is none of these), and to_proto() carries
\* terminate as the user set it, whatever else the result holds.
C6_TerminatePreserved ==
    /\ [][result'.terminate # result.terminate
              => ~((\E a \in Calls : BuilderCall(a)) \/ SuggestSolution)]_vars
    /\ [](pc = "delivered" => result_proto.terminate = result.terminate)

\* A result with terminate set, a constraint and a suggestion was serialized.
C6_Witness ==
    /\ pc = "delivered"
    /\ result.terminate
    /\ result_proto.terminate
    /\ Len(result_proto.cuts) >= 1
    /\ Len(result_proto.suggested_solutions) >= 1

\* expr = e, lb = b and e >= b; expr = e, ub = b and e <= b.
KeywordLb(e, b) == Args(None, b, None, e)

InequalityGe(e, b) == Args(LowerBoundedLinearExpression(e, b), None, None, None)

KeywordUb(e, b) == Args(None, None, b, e)

InequalityLe(e, b) == Args(UpperBoundedLinearExpression(e, b), None, None, None)

\* C9: the two call shapes append identical constraints: for e in {x + y,
\* x + y + 1} and b = 2, expr = e, lb = b and e >= b both append lower_bound =
\* b less e's offset, upper_bound = +inf, e's terms and the is_lazy given;
\* and symmetrically expr = e, ub = b and e <= b.
C9_CallShapesAgree ==
    [][\A e \in FiniteExprs, l \in BOOLEAN :
          /\ (\/ add_generated_constraint(KeywordLb(e, Fin(2)), l)
              \/ add_generated_constraint(InequalityGe(e, Fin(2)), l))
                => result'.generated_constraints =
                      Append(result.generated_constraints,
                             GeneratedConstraint(e.terms, Fin(2 - e.offset.n), PInf, l))
          /\ (\/ add_generated_constraint(KeywordUb(e, Fin(2)), l)
              \/ add_generated_constraint(InequalityLe(e, Fin(2)), l))
                => result'.generated_constraints =
                      Append(result.generated_constraints,
                             GeneratedConstraint(e.terms, NInf, Fin(2 - e.offset.n), l))]_vars

\* Two calls stating x + y + 1 >= 2 left two identical constraints with
\* lower_bound 1 and upper_bound +inf.
C9_Witness ==
    /\ Len(result.generated_constraints) >= 2
    /\ result.generated_constraints[1] = result.generated_constraints[2]
    /\ result.generated_constraints[1].lower_bound = Fin(1)
    /\ result.generated_constraints[1].upper_bound = PInf
    /\ DOMAIN result.generated_constraints[1].terms # {}

\* C10: a builder call whose expression has an infinite offset raises and
\* leaves terminate, generated_constraints and suggested_solutions as they
\* were; a well-formed call right after the failure succeeds and appends its
\* constraint after the ones already there.
C10_InfiniteOffsetFailureIsLocal ==
    /\ [][\A a \in InfiniteOffsetCalls :
             BuilderCall(a) => (err' = "ValueError: infinite offset" /\ result' = result)]_vars
    /\ [][err = "ValueError: infinite offset" =>
             \A a \in WellFormedCalls :
                BuilderCall(a)
                   => /\ err' = "none"
                      /\ Len(result'.generated_constraints) = Len(result.generated_constraints) + 1
                      /\ SubSeq(result'.generated_constraints, 1, Len(result.generated_constraints))
                            = result.generated_constraints
                      /\ result'.terminate = result.terminate
                      /\ result'.suggested_solutions = result.suggested_solutions]_vars
    /\ []((pc = "handling" /\ err = "ValueError: infinite offset"
              /\ Len(result.generated_constraints) < MaxCons)
             => \A a \in WellFormedCalls : ENABLED add_generated_constraint(a, TRUE))

\* An infinite-offset call has just failed on a result that holds terminate,
\* a constraint and a suggestion, and a well-formed call can follow.
C10_Witness ==
    /\ pc = "handling"
    /\ err = "ValueError: infinite offset"
    /\ result.terminate
    /\ Len(result.generated_constraints) >= 1
    /\ Len(result.suggested_solutions) >= 1
    /\ ENABLED add_generated_constraint(KeywordLb(ExprXY1, Fin(2)), TRUE)

\* The last entry of a non-empty sequence.
Last(s) == s[Len(s)]

\* The (id, coefficient) pairs of a constraint's terms.
TermPairs(terms) == {<<v.id, terms[v]>> : v \in DOMAIN terms}

\* The (id, coefficient) pairs of a serialized sparse vector.
WirePairs(w) == {<<w.ids[i], w.values[i]>> : i \in 1..Len(w.ids)}

\* C11: generated_constraints is append only and holds one entry per
\* successful builder call, in call order: a step that alters it is a builder
\* call that returned, and it puts exactly one entry after the untouched old
\* ones; a builder call that returned has appended; the appended entry's
\* is_lazy is True for add_lazy_constraint, False for add_user_cut and the
\* argument for add_generated_constraint; to_proto() emits the entries in the
\* same order with the same lazy flags, bounds and terms.
C11_AppendOnlyInCallOrder ==
    /\ [][result'.generated_constraints # result.generated_constraints =>
             /\ err' = "none"
             /\ Len(result'.generated_constraints) = Len(result.generated_constraints) + 1
             /\ SubSeq(result'.generated_constraints, 1, Len(result.generated_constraints))
                   = result.generated_constraints
             /\ \E a \in Calls : BuilderCall(a)
             /\ \A a \in Calls :
                   /\ add_lazy_constraint(a) => Last(result'.generated_constraints).is_lazy
                   /\ add_user_cut(a) => ~Last(result'.generated_constraints).is_lazy
                   /\ \A l \in BOOLEAN :
                         add_generated_constraint(a, l)
                            => Last(result'.generated_constraints).is_lazy = l]_vars
    /\ [][(result'.generated_constraints = result.generated_constraints /\ err' = "none")
             => ~(\E a \in Calls : BuilderCall(a))]_vars
    /\ [](pc = "delivered" =>
             /\ Len(result_proto.cuts) = Len(result.generated_constraints)
             /\ \A i \in 1..Len(result.generated_constraints) :
                   /\ result_proto.cuts[i].is_lazy = result.generated_constraints[i].is_lazy
                   /\ result_proto.cuts[i].lower_bound = result.generated_constraints[i].lower_bound
                   /\ result_proto.cuts[i].upper_bound = result.generated_constraints[i].upper_bound
                   /\ WirePairs(result_proto.cuts[i].linear_expression)
                         = TermPairs(result.generated_constraints[i].terms))

\* A lazy constraint x + y >= 2 and then a user cut x + y + 1 <= 2 were added
\* and serialized: two entries, different in flag and bounds, in call order.
C11_Witness ==
    /\ pc = "delivered"
    /\ Len(result.generated_constraints) = 2
    /\ result.generated_constraints[1] = GeneratedConstraint(ExprXY.terms, Fin(2), PInf, TRUE)
    /\ result.generated_constraints[2] = GeneratedConstraint(ExprXY1.terms, NInf, Fin(1), FALSE)
    /\ result_proto.cuts[1].is_lazy
    /\ ~result_proto.cuts[2].is_lazy
    /\ result_proto.cuts[1].lower_bound = Fin(2)
    /\ result_proto.cuts[2].upper_bound = Fin(1)

----------------------------------------------------------------------------
\* Data loss in parse_callback_data (checked under SpecParse).

\* C12 as claimed: for every raw payload that carries a primal-solution
\* vector, ids and values of different lengths and repeated ids included,
\* parse_callback_data either raises and returns nothing, or returns a
\* solution that represents every entry of the vector: every id and every
\* value has its partner, each id's variable maps to the value at its
\* position, and the mapping has no fewer entries than the vector.
C12_NoSilentDataLoss ==
    (pc # "fired" /\ cb_data.has_primal_solution_vector)
        => \/ (err # "none" /\ data = NoCallbackData)
           \/ /\ data # NoCallbackData
              /\ Len(PsvIds) = Len(PsvValues)
              /\ Cardinality(DOMAIN data.solution) >= Len(PsvIds)
              /\ \A i \in 1..Len(PsvIds) :
                    /\ Variable(mod.name, PsvIds[i]) \in DOMAIN data.solution
                    /\ data.solution[Variable(mod.name, PsvIds[i])] = PsvValues[i]

====
